---- MODULE Spec2Model ----
(***************************************************************************)
(* py-spidev: the SpiDev object of spidev_module.c as a state machine.     *)
(*                                                                         *)
(* The state is the SpiDevObject (fd and the three cached settings), the   *)
(* process-wide xfer3_block_size, and the part of the kernel the module    *)
(* talks to: the descriptors the object opened, the settings the SPI       *)
(* device holds, and the contents of the bufsiz control file.  Every       *)
(* handler is one action; the system calls it issued and what it returned  *)
(* to the interpreter are recorded in calls and result.                    *)
(***************************************************************************)
EXTENDS Integers, Sequences, FiniteSets, TLC

\* ------------------------------------------------------------------ bounds
\* the longest short argument, the small block size in the control file, the
\* last call of a handler that can fail, the descriptors the process may hold
MaxLen == 3
MaxBlock == 8
MaxFail == 2
MaxFds == 2

\* --------------------------------------------------------------- constants
SPIDEV_MAXPATH == 4096
XFER3_DEFAULT_BLOCK_SIZE == SPIDEV_MAXPATH
XFER3_MAX_BLOCK_SIZE == 65535
SMALL_BUFFER_SIZE == 128

SPI_CPHA == 1
SPI_CPOL == 2
SPI_CS_HIGH == 4
SPI_LSB_FIRST == 8
SPI_3WIRE == 16
SPI_LOOP == 32
SPI_NO_CS == 64

INT_MAX == 2147483647
\* the number of values of a uint16_t
UINT16_RANGE == 65536

\* ------------------------------------------------------- integer helpers
U8(v) == v % 256
U16(v) == v % UINT16_RANGE

Min(a, b) == IF a < b THEN a ELSE b

\* bit b (a power of two) of the 8 bit word m
HasBit(m, b) == (m \div b) % 2 = 1
SetBit(m, b) == IF HasBit(m, b) THEN m ELSE m + b
ClearBit(m, b) == IF HasBit(m, b) THEN m - b ELSE m

\* ------------------------------------------------------------------ state
VARIABLES
    fd,                 \* SpiDevObject.fd
    mode,               \* SpiDevObject.mode
    bits_per_word,      \* SpiDevObject.bits_per_word
    max_speed_hz,       \* SpiDevObject.max_speed_hz
    xfer3_block_size,   \* the process-wide cached block size
    bufsiz,             \* contents of /sys/module/spidev/parameters/bufsiz
    open_fds,           \* descriptors this object opened that are still open
    dev,                \* the settings the SPI device holds
    op,                 \* the last handler called, with its argument
    calls,              \* the system calls the last handler issued, in order
    result              \* what the last handler returned to the interpreter

vars == <<fd, mode, bits_per_word, max_speed_hz, xfer3_block_size, bufsiz,
          open_fds, dev, op, calls, result>>

handle == <<fd, mode, bits_per_word, max_speed_hz>>
kernel == <<open_fds, dev>>

\* ------------------------------------------------- results of a handler
\* exc is the exception set ("none" when the handler succeeds), ret names
\* what comes back and value holds the bytes of a returned list or tuple.
Returned(r) == [exc |-> "none", ret |-> r, value |-> <<>>]
ReturnedBytes(r, v) == [exc |-> "none", ret |-> r, value |-> v]
Raised(e, msg) == [exc |-> e, ret |-> msg, value |-> <<>>]
\* NULL (or -1) returned with no exception set: the interpreter raises
\* SystemError
ReturnedNull == [exc |-> "SystemError", ret |-> "error return without exception set", value |-> <<>>]

wrmsg_list0 == "Empty argument list."
wrmsg_listmax == "Argument list size exceeds 4096 bytes."
wrmsg_val == "Non-Int/Long value in arguments"
wrmsg_oom == "Out of memory."

\* ----------------------------------------------------------- Python values
\* Python values handed to a setter: a deletion (val == NULL), an int, a
\* bool (a subclass of int), or an object of another type.
PyDel == [t |-> "del", v |-> 0]
PyOther == [t |-> "other", v |-> 0]
PyInt(v) == [t |-> "int", v |-> v]
PyBool(b) == [t |-> "bool", v |-> IF b THEN 1 ELSE 0]

PyLong_Check(val) == val.t \in {"int", "bool"}
PyBool_Check(val) == val.t = "bool"
PyLong_AS_LONG(val) == val.v
Py_True == PyBool(TRUE)

\* a system call record
Call(c, start, len, status, rx) ==
    [call |-> c, start |-> start, len |-> len, status |-> status, rx |-> rx]

\* ----------------------------------------------------------- the kernel
Fds == 3 .. (MaxFds + 2)

\* open(2) returns the lowest descriptor number not in use
LowestFree(used) == CHOOSE d \in Fds \ used : \A e \in Fds \ used : d <= e

DevModes == {0, SPI_CPHA + SPI_CS_HIGH}
DevBits == {8}
DevSpeeds == {500000}

\* ---------------------------------------------------------- construction
\* SpiDev_new: a fresh object
Init ==
    /\ fd = -1
    /\ mode = 0
    /\ bits_per_word = 0
    /\ max_speed_hz = 0
    /\ xfer3_block_size = 0
    /\ bufsiz = [kind |-> "absent", neg |-> FALSE, hi |-> 0, lo |-> 0]
    /\ open_fds = {}
    /\ dev \in [mode : DevModes, bits : DevBits, speed : DevSpeeds]
    /\ op = [name |-> "new", arg |-> PyDel]
    /\ calls = <<>>
    /\ result = Returned("self")

\* ------------------------------------------------------------ open, close
\* SpiDev_open: open(2), then three read ioctls; failed = 0 when every call
\* succeeds, else the number of the call that fails (1 = open).
SpiDev_open ==
    \E failed \in 0 .. 4 :
        /\ (Cardinality(open_fds) >= MaxFds) => failed = 1
        /\ LET newfd == IF failed = 1 THEN -1 ELSE LowestFree(open_fds)
           IN  /\ fd' = newfd
               /\ open_fds' = IF failed = 1 THEN open_fds ELSE open_fds \cup {newfd}
               /\ mode' = IF failed \in {1, 2} THEN mode ELSE dev.mode
               /\ bits_per_word' = IF failed \in {1, 2, 3} THEN bits_per_word ELSE dev.bits
               /\ max_speed_hz' = IF failed \in {1, 2, 3, 4} THEN max_speed_hz ELSE dev.speed
               /\ result' = IF failed = 0 THEN Returned("None") ELSE Raised("IOError", "errno")
        /\ op' = [name |-> "open", arg |-> PyDel]
        /\ calls' = <<>>
        /\ UNCHANGED <<xfer3_block_size, bufsiz, dev>>

\* what close(2) on descriptor d can do: "ok" releases it, "fail" returns -1
\* and leaves it open, "fail_released" returns -1 having released it.
CloseOutcomes(d) ==
    IF d \in open_fds THEN {"ok", "fail", "fail_released"} ELSE {"fail"}

\* the body of SpiDev_close as a relation on the object and the descriptors
CloseBody(how) ==
    /\ open_fds' = IF fd # -1 /\ how \in {"ok", "fail_released"}
                   THEN open_fds \ {fd} ELSE open_fds
    /\ IF fd # -1 /\ how # "ok"
       THEN UNCHANGED handle
       ELSE /\ fd' = -1
            /\ mode' = 0
            /\ bits_per_word' = 0
            /\ max_speed_hz' = 0

SpiDev_close ==
    \E how \in CloseOutcomes(fd) :
        /\ CloseBody(how)
        /\ result' = IF fd # -1 /\ how # "ok"
                     THEN Raised("IOError", "errno") ELSE Returned("None")
        /\ op' = [name |-> "close", arg |-> PyDel]
        /\ calls' = <<>>
        /\ UNCHANGED <<xfer3_block_size, bufsiz, dev>>

\* SpiDev_exit: close, whose result is dropped, then False
SpiDev_exit ==
    \E how \in CloseOutcomes(fd) :
        /\ CloseBody(how)
        /\ result' = Returned("False")
        /\ op' = [name |-> "__exit__", arg |-> PyDel]
        /\ calls' = <<>>
        /\ UNCHANGED <<xfer3_block_size, bufsiz, dev>>

\* ------------------------------------------------------------ the setters
ModeVals == {PyDel, PyOther, PyBool(TRUE), PyInt(0), PyInt(3), PyInt(4), PyInt(258)}
FlagVals == {PyDel, PyInt(1), PyBool(TRUE), PyBool(FALSE)}
BitsVals == {PyDel, PyOther, PyInt(7), PyInt(8), PyInt(33), PyInt(272)}
\* speeds are kept in 0 .. INT_MAX, where the cast to uint32_t changes nothing
SpeedVals == {PyDel, PyOther, PyInt(500000), PyInt(1000000)}

\* an ioctl on the object's descriptor fails when the descriptor is not open
IoctlOutcomes == IF fd \in open_fds THEN {"ok", "fail"} ELSE {"fail"}

\* what the device stores when it does not take a written mode as it is
DevAltered(m) == ClearBit(m, SPI_NO_CS)

\* the mode bits the SPI controller of the model supports; the kernel refuses
\* (EINVAL) a mode with any other bit
DevModeBits == {SPI_CPHA, SPI_CPOL, SPI_CS_HIGH, SPI_NO_CS}
DevSupports(m) ==
    \A b \in {SPI_CPHA, SPI_CPOL, SPI_CS_HIGH, SPI_LSB_FIRST, SPI_3WIRE, SPI_LOOP,
              SPI_NO_CS} : HasBit(m, b) => b \in DevModeBits

SetModeOutcomes(m) ==
    IF fd \in open_fds /\ DevSupports(m)
    THEN {"ok", "wr_fail", "rd_fail", "altered"} ELSE {"wr_fail"}

\* __spidev_set_mode(fd, m): the write ioctl, the read-back ioctl and the
\* comparison; stored is the mode the device holds afterwards.
spidev_set_mode(m, how) ==
    IF how = "wr_fail"
    THEN [ret |-> -1, result |-> Raised("IOError", "errno"), stored |-> dev.mode]
    ELSE IF how = "rd_fail"
    THEN [ret |-> -1, result |-> Raised("IOError", "errno"), stored |-> m]
    ELSE LET test == IF how = "altered" THEN DevAltered(m) ELSE m
         IN  IF test # m
             THEN [ret |-> -1, result |-> ReturnedNull, stored |-> test]
             ELSE [ret |-> 0, result |-> Returned("0"), stored |-> test]

\* a setter that returns -1 before it touches the object or the device
SetterRejects(name, val, msg) ==
    /\ result' = Raised("TypeError", "attribute")
    /\ op' = [name |-> name, arg |-> PyDel]
    /\ calls' = <<>>
    /\ UNCHANGED <<handle, kernel, xfer3_block_size, bufsiz>>

\* the tail shared by the seven mode setters: ret = __spidev_set_mode(fd, tmp);
\* if (ret != -1) self->mode = tmp
StoreMode(name, val, tmp) ==
    \E how \in SetModeOutcomes(tmp) :
        LET r == spidev_set_mode(tmp, how)
        IN  /\ dev' = [dev EXCEPT !.mode = r.stored]
            /\ mode' = IF r.ret # -1 THEN tmp ELSE mode
            /\ result' = r.result
            /\ op' = [name |-> name, arg |-> PyDel]
            /\ calls' = <<>>
            /\ UNCHANGED <<fd, bits_per_word, max_speed_hz, open_fds,
                           xfer3_block_size, bufsiz>>

SpiDev_set_mode ==
    \E val \in ModeVals :
        IF val = PyDel
        THEN SetterRejects("mode", val, "Cannot delete attribute")
        ELSE IF ~PyLong_Check(val)
        THEN SetterRejects("mode", val, "The mode attribute must be an integer")
        ELSE LET m == U8(PyLong_AS_LONG(val))
             IN  IF m > 3
                 THEN SetterRejects("mode", val, "between 0 and 3")
                 ELSE StoreMode("mode", val, (mode - (mode % 4)) + m)

\* the six boolean setters differ in the bit only
SetFlag(name, bit) ==
    \E val \in FlagVals :
        IF val = PyDel
        THEN SetterRejects(name, val, "Cannot delete attribute")
        ELSE IF ~PyBool_Check(val)
        THEN SetterRejects(name, val, "must be boolean")
        ELSE StoreMode(name, val,
                       IF val = Py_True THEN SetBit(mode, bit) ELSE ClearBit(mode, bit))

SpiDev_set_cshigh == SetFlag("cshigh", SPI_CS_HIGH)
SpiDev_set_lsbfirst == SetFlag("lsbfirst", SPI_LSB_FIRST)
SpiDev_set_3wire == SetFlag("threewire", SPI_3WIRE)
SpiDev_set_no_cs == SetFlag("no_cs", SPI_NO_CS)
SpiDev_set_loop == SetFlag("loop", SPI_LOOP)

SpiDev_set_bits_per_word ==
    \E val \in BitsVals :
        IF val = PyDel
        THEN SetterRejects("bits_per_word", val, "Cannot delete attribute")
        ELSE IF ~PyLong_Check(val)
        THEN SetterRejects("bits_per_word", val, "must be an integer")
        ELSE LET bits == U8(PyLong_AS_LONG(val))
             IN  IF bits < 8 \/ bits > 32
                 THEN SetterRejects("bits_per_word", val, "invalid bits_per_word (8 to 32)")
                 ELSE \E how \in (IF bits_per_word # bits THEN IoctlOutcomes ELSE {"skip"}) :
                        /\ dev' = IF how = "ok" THEN [dev EXCEPT !.bits = bits] ELSE dev
                        /\ bits_per_word' = IF how = "ok" THEN bits ELSE bits_per_word
                        /\ result' = IF how = "fail" THEN Raised("IOError", "errno")
                                     ELSE Returned("0")
                        /\ op' = [name |-> "bits_per_word", arg |-> PyDel]
                        /\ calls' = <<>>
                        /\ UNCHANGED <<fd, mode, max_speed_hz, open_fds,
                                       xfer3_block_size, bufsiz>>

SpiDev_set_max_speed_hz ==
    \E val \in SpeedVals :
        IF val = PyDel
        THEN SetterRejects("max_speed_hz", val, "Cannot delete attribute")
        ELSE IF ~PyLong_Check(val)
        THEN SetterRejects("max_speed_hz", val, "must be an integer")
        ELSE LET hz == PyLong_AS_LONG(val)
             IN  \E how \in (IF max_speed_hz # hz THEN IoctlOutcomes ELSE {"skip"}) :
                    /\ dev' = IF how = "ok" THEN [dev EXCEPT !.speed = hz] ELSE dev
                    /\ max_speed_hz' = IF how = "ok" THEN hz ELSE max_speed_hz
                    /\ result' = IF how = "fail" THEN Raised("IOError", "errno")
                                 ELSE Returned("0")
                    /\ op' = [name |-> "max_speed_hz", arg |-> PyDel]
                    /\ calls' = <<>>
                    /\ UNCHANGED <<fd, mode, bits_per_word, open_fds,
                                   xfer3_block_size, bufsiz>>


\* ---------------------------------------------------- the bufsiz control file
\* The file is absent, starts with text that is no number, or starts with a
\* decimal number.  The kernel parameter is an unsigned int, so the number can
\* exceed INT_MAX: it is held as sign and two 16 bit halves, hi * 65536 + lo.
NoFile == [kind |-> "absent", neg |-> FALSE, hi |-> 0, lo |-> 0]
NoNumber == [kind |-> "text", neg |-> FALSE, hi |-> 0, lo |-> 0]
Number(v) == [kind |-> "number", neg |-> v < 0,
              hi |-> (IF v < 0 THEN -v ELSE v) \div UINT16_RANGE,
              lo |-> (IF v < 0 THEN -v ELSE v) % UINT16_RANGE]
\* 4294967295, the largest value of the kernel parameter
UintMax == [kind |-> "number", neg |-> FALSE, hi |-> UINT16_RANGE - 1, lo |-> UINT16_RANGE - 1]

BufsizContents ==
    {NoFile, NoNumber, Number(0), UintMax, Number(MaxBlock),
     Number(XFER3_MAX_BLOCK_SIZE), Number(XFER3_MAX_BLOCK_SIZE + 1)}

\* whether the number fits an int
FitsInt(f) == f.hi < UINT16_RANGE \div 2

\* fscanf(file, "%d", &value): the conversions made and the value stored.  A
\* number that does not fit an int is undefined behaviour: the C library
\* stores its low 32 bits or the clamped INT_MAX.
ScanOutcomes(f) ==
    IF f.kind # "number" THEN {[n |-> 0, value |-> 0]}
    ELSE IF FitsInt(f)
    THEN {[n |-> 1, value |-> (IF f.neg THEN -1 ELSE 1) * (f.hi * UINT16_RANGE + f.lo)]}
    ELSE {[n |-> 1, value |-> (f.hi - UINT16_RANGE) * UINT16_RANGE + f.lo],
          [n |-> 1, value |-> INT_MAX]}

\* get_xfer3_block_size with the outcome of its fscanf: the value returned
\* (and cached), and the fopen it made
\* a variant that never consults the cached value and reads the control file
\* on every call
get_xfer3_block_size_uncached(scanned) ==
    [size |-> IF bufsiz.kind # "absent" /\ scanned.n = 1 /\ scanned.value > 0
              THEN (IF scanned.value <= XFER3_MAX_BLOCK_SIZE
                    THEN scanned.value ELSE XFER3_MAX_BLOCK_SIZE)
              ELSE XFER3_DEFAULT_BLOCK_SIZE,
     calls |-> <<Call("fopen", 0, 0, IF bufsiz.kind = "absent" THEN -1 ELSE 0, <<>>)>>]

get_xfer3_block_size(scanned) ==
    IF xfer3_block_size # 0
    THEN [size |-> xfer3_block_size, calls |-> <<>>]
    ELSE [size |-> IF bufsiz.kind # "absent" /\ scanned.n = 1 /\ scanned.value > 0
                   THEN (IF scanned.value <= XFER3_MAX_BLOCK_SIZE
                         THEN scanned.value ELSE XFER3_MAX_BLOCK_SIZE)
                   ELSE XFER3_DEFAULT_BLOCK_SIZE,
          calls |-> <<Call("fopen", 0, 0, IF bufsiz.kind = "absent" THEN -1 ELSE 0, <<>>)>>]

\* the kernel parameter file changes under the process
SetBufsiz ==
    /\ bufsiz' \in BufsizContents \ {bufsiz}
    /\ op' = [name |-> "bufsiz", arg |-> PyDel]
    /\ calls' = <<>>
    /\ result' = Returned("None")
    /\ UNCHANGED <<handle, kernel, xfer3_block_size>>

\* --------------------------------------------------------- transfer arguments
\* A sequence argument: its type, its length and the position (from 1) of an
\* element that is no int (0: every element is an int).
PySeq(t, len, bad) == [t |-> t, v |-> len, bad |-> bad]
\* lists of every length in lens, one of them with a str as second element,
\* and short tuples and bytes objects
SeqArgs(lens, short) ==
    {PySeq("list", n, 0) : n \in lens}
    \cup {PySeq("list", short, 2)}
    \cup {PySeq("tuple", n, 0) : n \in 0 .. 1}
    \cup {PySeq("bytes", n, 0) : n \in {0, 1, short}}

\* the element at index j (from 0) of the argument
ItemVal(obj, j) == 250 + j
ItemIsInt(obj, j) == obj.bad # j + 1
\* whether elements from .. from + n - 1 are all ints
AllInt(obj, from, n) == \A j \in {obj.bad - 1} \cap (from .. (from + n - 1)) : ItemIsInt(obj, j)
\* the bytes the conversion loop stores for elements from .. from + n - 1
TxBlock(obj, from, n) == [i \in 1 .. n |-> U8(ItemVal(obj, from + i - 1))]

\* the lengths tried with writebytes, xfer and xfer2
ListLens ==
    (0 .. MaxLen)
    \cup {SPIDEV_MAXPATH, SPIDEV_MAXPATH + 1, UINT16_RANGE - 1, UINT16_RANGE,
          UINT16_RANGE + 1, UINT16_RANGE + SPIDEV_MAXPATH + 1}
\* the lengths tried with writebytes2 and xfer3
\* the lengths tried with writebytes2 and xfer3: around the small block size
\* and around SMALL_BUFFER_SIZE
ChunkLens ==
    {0, 1, MaxBlock, MaxBlock + 1, 2 * MaxBlock + 1, SMALL_BUFFER_SIZE,
     SMALL_BUFFER_SIZE + 1}

\* ------------------------------------------------------ the device's answers
\* What the kernel does with the calls of one handler: call number failAt
\* (0: none) fails (how = "fail") or comes back one byte short ("short"); an
\* allocation fails when oom; seed varies the bytes the device sends.
Envs ==
    {[failAt |-> 0, how |-> "fail", oom |-> FALSE, seed |-> s] : s \in {0, 1}}
    \cup {[failAt |-> 0, how |-> "fail", oom |-> TRUE, seed |-> 0]}
    \cup [failAt : 1 .. MaxFail, how : {"fail", "short"}, oom : {FALSE}, seed : {0}]

\* the status of the k-th write, read or ioctl asked to move len bytes
Status(env, k, len) ==
    IF fd \notin open_fds THEN -1
    ELSE IF env.failAt = k THEN (IF env.how = "fail" THEN -1 ELSE len - 1)
    ELSE len

\* the bytes the device clocks back during the k-th message carrying tx
DevReply(env, k, tx) == [i \in 1 .. Len(tx) |-> U8(tx[i] + 7 * k + env.seed + i)]
\* the bytes the device delivers to a read of len bytes
DevRead(env, len) == [i \in 1 .. len |-> U8(env.seed + 3 * i)]

\* a handler's effect: it touches neither the object nor the kernel's settings
Handler(name, arg, bs, cs, res) ==
    /\ op' = [name |-> name, arg |-> arg]
    /\ calls' = cs
    /\ result' = res
    /\ xfer3_block_size' = bs
    /\ UNCHANGED <<handle, kernel, bufsiz>>

\* ------------------------------------------------- writebytes and readbytes
\* the outcomes of a handler that makes one transfer call
OneCallEnvs == {e \in Envs : e.failAt <= 1 /\ ~e.oom}

SpiDev_writebytes ==
    \E obj \in SeqArgs(ListLens, MaxLen), env \in OneCallEnvs :
        LET len == U16(obj.v)
            st == Status(env, 1, len)
        IN  IF len <= 0
            THEN Handler("writebytes", obj, xfer3_block_size, <<>>,
                         Raised("TypeError", wrmsg_list0))
            ELSE IF len > SPIDEV_MAXPATH
            THEN Handler("writebytes", obj, xfer3_block_size, <<>>,
                         Raised("OverflowError", wrmsg_listmax))
            ELSE IF ~AllInt(obj, 0, len)
            THEN Handler("writebytes", obj, xfer3_block_size, <<>>,
                         Raised("TypeError", wrmsg_val))
            ELSE Handler("writebytes", obj, xfer3_block_size,
                         <<Call("write", 0, len, st, <<>>)>>,
                         IF st < 0 THEN Raised("IOError", "errno")
                         ELSE IF st # len THEN ReturnedNull
                         ELSE Returned("None"))

\* the arguments tried with readbytes; PyHuge is an int beyond the range of a
\* C int, which the "i" format of PyArg_ParseTuple refuses
PyHuge == [t |-> "hugeint", v |-> 0]
ReadArgs ==
    {PyOther, PyHuge, PyInt(-1), PyInt(SPIDEV_MAXPATH), PyInt(SPIDEV_MAXPATH + 1),
     PyInt(INT_MAX)}
    \cup {PyInt(v) : v \in 0 .. MaxLen}

\* a variant of the clamp whose lower limit is off by one: readbytes(0) asks
\* for 0 bytes
ReadLen_zero(len) == IF len < 0 THEN 1 ELSE IF len > SPIDEV_MAXPATH THEN SPIDEV_MAXPATH ELSE len

\* the clamp of readbytes: at least 1 byte, no more than sizeof(rxbuf)
ReadLen(len) == IF len < 1 THEN 1 ELSE IF len > SPIDEV_MAXPATH THEN SPIDEV_MAXPATH ELSE len

SpiDev_readbytes ==
    \E val \in ReadArgs, env \in OneCallEnvs :
        IF val.t = "hugeint"
        THEN Handler("readbytes", val, xfer3_block_size, <<>>,
                     Raised("OverflowError", "signed integer is greater than maximum"))
        ELSE IF ~PyLong_Check(val)
        THEN Handler("readbytes", val, xfer3_block_size, <<>>,
                     Raised("TypeError", "an integer is required"))
        ELSE LET len == ReadLen(PyLong_AS_LONG(val))
                 st == Status(env, 1, len)
             IN  Handler("readbytes", val, xfer3_block_size,
                         <<Call("read", 0, len, st, <<>>)>>,
                         IF st < 0 THEN Raised("IOError", "errno")
                         ELSE IF st # len THEN ReturnedNull
                         ELSE ReturnedBytes("list", DevRead(env, len)))

\* ------------------------------------------------------------ xfer and xfer2
\* SpiDev_xfer (built without SPIDEV_SINGLE) and SpiDev_xfer2 are the same
\* code: one SPI_IOC_MESSAGE(1) of len bytes, the answer stored over the
\* first len elements of the sequence, and a read of 0 bytes in CS_HIGH mode.
XferOne(name, obj, env) ==
    LET len == U16(obj.v)
        st == Status(env, 1, len)
        rx == DevReply(env, 1, TxBlock(obj, 0, len))
        cs_read == IF HasBit(mode, SPI_CS_HIGH)
                   THEN <<Call("read", 0, 0, IF fd \in open_fds THEN 0 ELSE -1, <<>>)>>
                   ELSE <<>>
    IN  IF len <= 0
        THEN Handler(name, obj, xfer3_block_size, <<>>, Raised("TypeError", wrmsg_list0))
        ELSE IF len > SPIDEV_MAXPATH
        THEN Handler(name, obj, xfer3_block_size, <<>>,
                     Raised("OverflowError", wrmsg_listmax))
        ELSE IF ~AllInt(obj, 0, len)
        THEN Handler(name, obj, xfer3_block_size, <<>>, Raised("TypeError", wrmsg_val))
        ELSE IF st < 0
        THEN Handler(name, obj, xfer3_block_size, <<Call("ioctl", 0, len, st, <<>>)>>,
                     Raised("IOError", "errno"))
        ELSE Handler(name, obj, xfer3_block_size,
                     <<Call("ioctl", 0, len, st, rx)>> \o cs_read,
                     ReturnedBytes(IF obj.t = "tuple" THEN "tuple" ELSE "list", rx))

SpiDev_xfer == \E obj \in SeqArgs(ListLens, MaxLen), env \in OneCallEnvs : XferOne("xfer", obj, env)

SpiDev_xfer2 == \E obj \in SeqArgs(ListLens, MaxLen), env \in OneCallEnvs : XferOne("xfer2", obj, env)

\* ------------------------------------------------------------- writebytes2
\* the loop of SpiDev_writebytes2_buffer from block_start on, cs being the
\* writes made so far
\* a variant of the loop that, after a short write, goes on with the bytes the
\* write left behind instead of giving up
RECURSIVE writebytes2_buffer_loop_retry(_, _, _, _, _, _)
writebytes2_buffer_loop_retry(len, spi_max_block, env, block_start, remain, cs) ==
    IF ~(block_start < len)
    THEN [calls |-> cs, result |-> Returned("None")]
    ELSE LET block_size == IF remain < spi_max_block THEN remain ELSE spi_max_block
             st == Status(env, Len(cs) + 1, block_size)
             c == Call("write", block_start, block_size, st, <<>>)
         IN  IF st < 0
             THEN [calls |-> Append(cs, c), result |-> Raised("IOError", "errno")]
             ELSE writebytes2_buffer_loop_retry(len, spi_max_block, env,
                                                block_start + st,
                                                remain - st, Append(cs, c))

RECURSIVE writebytes2_buffer_loop(_, _, _, _, _, _)
writebytes2_buffer_loop(len, spi_max_block, env, block_start, remain, cs) ==
    IF ~(block_start < len)
    THEN [calls |-> cs, result |-> Returned("None")]
    ELSE LET block_size == IF remain < spi_max_block THEN remain ELSE spi_max_block
             st == Status(env, Len(cs) + 1, block_size)
             c == Call("write", block_start, block_size, st, <<>>)
         IN  IF st < 0
             THEN [calls |-> Append(cs, c), result |-> Raised("IOError", "errno")]
             ELSE IF st # block_size
             THEN [calls |-> Append(cs, c), result |-> ReturnedNull]
             ELSE writebytes2_buffer_loop(len, spi_max_block, env,
                                          block_start + block_size,
                                          remain - block_size, Append(cs, c))

SpiDev_writebytes2_buffer(obj, env, scanned) ==
    LET g == get_xfer3_block_size(scanned)
        r == writebytes2_buffer_loop(obj.v, g.size, env, 0, obj.v, <<>>)
    IN  [size |-> g.size, calls |-> g.calls \o r.calls, result |-> r.result]

\* the loop of SpiDev_writebytes2_seq_internal with remain elements left, the
\* next of them at index jj
RECURSIVE SpiDev_writebytes2_seq_internal(_, _, _, _, _, _)
SpiDev_writebytes2_seq_internal(obj, bufsize, env, remain, jj, cs) ==
    IF ~(remain > 0)
    THEN [calls |-> cs, result |-> Returned("None")]
    ELSE LET block_size == IF remain < bufsize THEN remain ELSE bufsize
             st == Status(env, Len(cs) + 1, block_size)
             c == Call("write", jj, block_size, st, <<>>)
         IN  IF ~AllInt(obj, jj, block_size)
             THEN [calls |-> cs, result |-> Raised("TypeError", wrmsg_val)]
             ELSE IF st < 0
             THEN [calls |-> Append(cs, c), result |-> Raised("IOError", "errno")]
             ELSE IF st # block_size
             THEN [calls |-> Append(cs, c), result |-> ReturnedNull]
             ELSE SpiDev_writebytes2_seq_internal(obj, bufsize, env,
                                                  remain - block_size,
                                                  jj + block_size, Append(cs, c))

SpiDev_writebytes2_seq(obj, env, scanned) ==
    LET len == obj.v
        g == get_xfer3_block_size(scanned)
        spi_max_block == g.size
        bufsize == IF len < spi_max_block THEN len ELSE spi_max_block
        small == SpiDev_writebytes2_seq_internal(obj, SMALL_BUFFER_SIZE, env, len, 0, <<>>)
        large == SpiDev_writebytes2_seq_internal(obj, bufsize, env, len, 0, <<>>)
    IN  IF len <= 0
        THEN [size |-> xfer3_block_size, calls |-> <<>>,
              result |-> Raised("TypeError", wrmsg_list0)]
        ELSE IF bufsize <= SMALL_BUFFER_SIZE
        THEN [size |-> g.size, calls |-> g.calls \o small.calls, result |-> small.result]
        ELSE IF env.oom
        THEN [size |-> g.size,
              calls |-> g.calls \o <<Call("malloc", 0, bufsize, -1, <<>>)>>,
              result |-> Raised("OverflowError", wrmsg_oom)]
        ELSE [size |-> g.size, calls |-> g.calls \o large.calls, result |-> large.result]

\* the arguments tried with writebytes2 and xfer3: sequences, byte buffers,
\* and an object that is neither
ChunkArgs == SeqArgs(ChunkLens, 2 * MaxBlock + 1) \cup {PyOther}

SpiDev_writebytes2 ==
    \E obj \in ChunkArgs, env \in Envs, scanned \in ScanOutcomes(bufsiz) :
        LET r == IF obj.t = "bytes" THEN SpiDev_writebytes2_buffer(obj, env, scanned)
                 ELSE IF obj.t = "other"
                 THEN [size |-> xfer3_block_size, calls |-> <<>>,
                       result |-> Raised("TypeError", wrmsg_list0)]
                 ELSE SpiDev_writebytes2_seq(obj, env, scanned)
        IN  Handler("writebytes2", obj, r.size, r.calls, r.result)

\* -------------------------------------------------------------------- xfer3
\* the loop of SpiDev_xfer3 from block_start on; rx_tuple holds the bytes
\* stored so far (-1: an empty slot), cs the messages sent so far
\* a variant of the loop that stores every block's answer from position 0 of
\* the tuple (the index not offset by block_start)
RECURSIVE xfer3_loop_rx0(_, _, _, _, _, _)
xfer3_loop_rx0(obj, bufsize, env, block_start, rx_tuple, cs) ==
    IF ~(block_start < obj.v)
    THEN [calls |-> cs, result |-> ReturnedBytes("tuple", rx_tuple)]
    ELSE LET block_size == Min(bufsize, obj.v - block_start)
             st == Status(env, Len(cs) + 1, block_size)
             rxbuf == DevReply(env, Len(cs) + 1, TxBlock(obj, block_start, block_size))
             c == Call("ioctl", block_start, block_size, st, rxbuf)
         IN  IF ~AllInt(obj, block_start, block_size)
             THEN [calls |-> cs, result |-> Raised("TypeError", wrmsg_val)]
             ELSE IF st < 0
             THEN [calls |-> Append(cs, c), result |-> Raised("IOError", "errno")]
             ELSE xfer3_loop_rx0(obj, bufsize, env, block_start + block_size,
                                 rxbuf \o SubSeq(rx_tuple, block_size + 1, obj.v),
                                 Append(cs, c))

RECURSIVE xfer3_loop(_, _, _, _, _, _)
xfer3_loop(obj, bufsize, env, block_start, rx_tuple, cs) ==
    IF ~(block_start < obj.v)
    THEN [calls |-> cs, result |-> ReturnedBytes("tuple", rx_tuple)]
    ELSE LET block_size == Min(bufsize, obj.v - block_start)
             st == Status(env, Len(cs) + 1, block_size)
             rxbuf == DevReply(env, Len(cs) + 1, TxBlock(obj, block_start, block_size))
             c == Call("ioctl", block_start, block_size, st, rxbuf)
         IN  IF ~AllInt(obj, block_start, block_size)
             THEN [calls |-> cs, result |-> Raised("TypeError", wrmsg_val)]
             ELSE IF st < 0
             THEN [calls |-> Append(cs, c), result |-> Raised("IOError", "errno")]
             ELSE xfer3_loop(obj, bufsize, env, block_start + block_size,
                             SubSeq(rx_tuple, 1, block_start) \o rxbuf
                                 \o SubSeq(rx_tuple, block_start + block_size + 1, obj.v),
                             Append(cs, c))

xfer3(obj, env, scanned) ==
    LET len == obj.v
        g == get_xfer3_block_size(scanned)
        bufsize == IF g.size > len THEN len ELSE g.size
        r == xfer3_loop(obj, bufsize, env, 0, [j \in 1 .. len |-> -1], <<>>)
        cs_read == IF r.result.exc = "none" /\ HasBit(mode, SPI_CS_HIGH)
                   THEN <<Call("read", 0, 0, IF fd \in open_fds THEN 0 ELSE -1, <<>>)>>
                   ELSE <<>>
    IN  IF obj.t = "other" \/ len <= 0
        THEN [size |-> xfer3_block_size, calls |-> <<>>,
              result |-> Raised("TypeError", wrmsg_list0)]
        ELSE IF env.oom
        THEN [size |-> g.size,
              calls |-> g.calls \o <<Call("malloc", 0, bufsize, -1, <<>>)>>,
              result |-> Raised("OverflowError", wrmsg_oom)]
        ELSE [size |-> g.size, calls |-> g.calls \o r.calls \o cs_read,
              result |-> r.result]

SpiDev_xfer3 ==
    \E obj \in ChunkArgs, env \in Envs, scanned \in ScanOutcomes(bufsiz) :
        LET r == xfer3(obj, env, scanned)
        IN  Handler("xfer3", obj, r.size, r.calls, r.result)

\* ------------------------------------------------------------ specifications
\* SpiDev(bus, device): SpiDev_new, then SpiDev_init whose SpiDev_open succeeds
InitOpened ==
    /\ dev \in [mode : DevModes, bits : DevBits, speed : DevSpeeds]
    /\ fd = LowestFree({})
    /\ open_fds = {fd}
    /\ mode = dev.mode
    /\ bits_per_word = dev.bits
    /\ max_speed_hz = dev.speed
    /\ xfer3_block_size = 0
    /\ bufsiz = NoFile
    /\ op = [name |-> "new", arg |-> PyDel]
    /\ calls = <<>>
    /\ result = Returned("self")

\* the object and its settings: open, close, __exit__ and the attribute setters
NextHandle ==
    \/ SpiDev_open
    \/ SpiDev_close
    \/ SpiDev_exit
    \/ SpiDev_set_mode
    \/ SpiDev_set_cshigh
    \/ SpiDev_set_lsbfirst
    \/ SpiDev_set_3wire
    \/ SpiDev_set_no_cs
    \/ SpiDev_set_loop
    \/ SpiDev_set_bits_per_word
    \/ SpiDev_set_max_speed_hz

SpecHandle == Init /\ [][NextHandle]_vars

\* the transfers of one call each, on an object that may be open
NextIO ==
    \/ SpiDev_writebytes
    \/ SpiDev_readbytes
    \/ SpiDev_xfer
    \/ SpiDev_xfer2

InitIO == Init \/ InitOpened

SpecIO == InitIO /\ [][NextIO]_vars

\* the chunked transfers and the block size they discover
NextChunk ==
    \/ SetBufsiz
    \/ SpiDev_writebytes2
    \/ SpiDev_xfer3

SpecChunk == InitOpened /\ [][NextChunk]_vars
\* ================================================================== claims
\* the transfer calls (write, read, SPI_IOC_MESSAGE) among the calls logged
IsTransfer(c) == c.call \in {"write", "read", "ioctl"}
Transfers == SelectSeq(calls, IsTransfer)
\* the calls made by the chunking loops
IsLoopCall(c) == c.call \in {"write", "ioctl"}
LoopCalls == SelectSeq(calls, IsLoopCall)
CeilDiv(n, b) == (n + b - 1) \div b
ChunkedOp == op.name \in {"writebytes2", "xfer3"}
IsSeqArg == op.arg.t \in {"list", "tuple", "bytes"}
AllocationsOk == \A i \in DOMAIN calls : calls[i].call = "malloc" => calls[i].status >= 0
LoopCallsOk == \A i \in DOMAIN LoopCalls : LoopCalls[i].status >= 0

\* C1: whenever the handle is open, the cached mode, bits_per_word and
\* max_speed_hz are the values the device holds.
C1_CacheTracksDevice ==
    fd \in open_fds =>
        /\ mode = dev.mode
        /\ bits_per_word = dev.bits
        /\ max_speed_hz = dev.speed

\* C2: xfer3 on a sequence of n >= 1 ints, when every ioctl (and allocation)
\* succeeds, sends exactly ceil(n / B) messages, B the discovered block size;
\* the blocks are contiguous, in index order and cover 0 .. n-1; it returns a
\* tuple of length n whose element j is the byte received for position j.
C2_Xfer3Covers ==
    (/\ op.name = "xfer3"
     /\ IsSeqArg
     /\ op.arg.v >= 1
     /\ op.arg.bad = 0
     /\ AllocationsOk
     /\ LoopCallsOk)
    => LET n == op.arg.v
           msgs == LoopCalls
       IN  /\ result.exc = "none"
           /\ result.ret = "tuple"
           /\ Len(msgs) = CeilDiv(n, xfer3_block_size)
           /\ msgs[1].start = 0
           /\ \A k \in 1 .. Len(msgs) :
                /\ msgs[k].call = "ioctl"
                /\ msgs[k].len >= 1
                /\ msgs[k].start + msgs[k].len =
                       (IF k < Len(msgs) THEN msgs[k + 1].start ELSE n)
           /\ Len(result.value) = n
           /\ \A k \in 1 .. Len(msgs) : \A i \in 1 .. msgs[k].len :
                result.value[msgs[k].start + i] = msgs[k].rx[i]

\* C2 witness: xfer3 returned after sending a sequence in three blocks
C2_Witness ==
    /\ op.name = "xfer3"
    /\ op.arg = PySeq("list", 2 * MaxBlock + 1, 0)
    /\ xfer3_block_size = MaxBlock
    /\ result.exc = "none"
    /\ Len(LoopCalls) > 2

\* C3: every write of writebytes2 and every message of xfer3 carries at most
\* get_xfer3_block_size() bytes.
C3_ChunksWithinBlockSize ==
    ChunkedOp =>
        \A i \in DOMAIN LoopCalls : LoopCalls[i].len <= xfer3_block_size

\* what C4 says the first call returns for the control file f
C4_Expected(f) ==
    IF f.kind # "number" \/ f.neg \/ (f.hi = 0 /\ f.lo = 0)
    THEN XFER3_DEFAULT_BLOCK_SIZE
    ELSE IF f.hi = 0 /\ f.lo <= XFER3_MAX_BLOCK_SIZE THEN f.lo
    ELSE XFER3_MAX_BLOCK_SIZE

\* C4: the first call of get_xfer3_block_size returns 4096 when the control
\* file cannot be opened or does not start with a positive integer, the
\* integer v itself when 1 <= v <= 65535, and 65535 when v > 65535.
C4_FirstCallValue ==
    (ChunkedOp /\ calls # <<>> /\ calls[1].call = "fopen")
    => xfer3_block_size = C4_Expected(bufsiz)

\* C5: once get_xfer3_block_size has cached a value, no later step changes it
\* and no later handler opens the control file, whatever the file holds.
C5_BlockSizeCached ==
    [][xfer3_block_size # 0 =>
          /\ xfer3_block_size' = xfer3_block_size
          /\ \A i \in DOMAIN calls' : calls'[i].call # "fopen"]_vars

\* C5 witness: xfer3 ran with the cached block size after the control file had
\* come to hold another value
C5_Witness ==
    /\ op.name = "xfer3"
    /\ result.exc = "none"
    /\ \A i \in DOMAIN calls : calls[i].call # "fopen"
    /\ xfer3_block_size = MaxBlock
    /\ bufsiz = Number(XFER3_MAX_BLOCK_SIZE)

\* C6: writebytes, xfer and xfer2 on a sequence of more than 4096 elements
\* raise OverflowError and make no call; a sequence of 1 .. 4096 ints is
\* transferred in full.
C6_LongSequencesRejected ==
    (op.name \in {"writebytes", "xfer", "xfer2"} /\ op.arg.bad = 0)
    => /\ op.arg.v > SPIDEV_MAXPATH =>
            /\ result.exc = "OverflowError"
            /\ result.ret = wrmsg_listmax
            /\ calls = <<>>
       /\ (op.arg.v >= 1 /\ op.arg.v <= SPIDEV_MAXPATH) =>
            /\ calls # <<>>
            /\ calls[1].start = 0
            /\ calls[1].len = op.arg.v

\* C7: writebytes, writebytes2, xfer, xfer2 and xfer3 on an empty list, tuple
\* or byte buffer raise TypeError("Empty argument list.") and make no read,
\* write or ioctl.
C7_EmptyArgumentRejected ==
    (/\ op.name \in {"writebytes", "writebytes2", "xfer", "xfer2", "xfer3"}
     /\ IsSeqArg
     /\ op.arg.v = 0)
    => /\ result.exc = "TypeError"
       /\ result.ret = wrmsg_list0
       /\ Transfers = <<>>

\* the number of bytes C8 says readbytes(len) asks for
C8_Clamp(len) == IF len < 1 THEN 1 ELSE IF len > SPIDEV_MAXPATH THEN SPIDEV_MAXPATH ELSE len

\* C8 as stated: for every integer len, readbytes asks the device for exactly
\* min(max(len, 1), 4096) bytes and, given that many, returns a list of that
\* many values in 0 .. 255.
C8_Original ==
    (op.name = "readbytes" /\ op.arg.t \in {"int", "hugeint"})
    => LET want == IF op.arg.t = "hugeint" THEN SPIDEV_MAXPATH ELSE C8_Clamp(op.arg.v)
       IN  /\ Len(calls) = 1
           /\ calls[1].call = "read"
           /\ calls[1].len = want

\* C8 amended: for every integer len that fits a C int, readbytes asks for
\* exactly min(max(len, 1), 4096) bytes in one read and, when the device
\* delivers that many, returns a list of that many values in 0 .. 255; an
\* integer that does not fit a C int raises OverflowError and nothing is read.
C8_ReadClamped ==
    op.name = "readbytes" =>
        /\ op.arg.t = "int" =>
             /\ Len(calls) = 1
             /\ calls[1].call = "read"
             /\ calls[1].len = C8_Clamp(op.arg.v)
             /\ calls[1].status = calls[1].len =>
                  /\ result.exc = "none"
                  /\ result.ret = "list"
                  /\ Len(result.value) = C8_Clamp(op.arg.v)
                  /\ \A i \in DOMAIN result.value : result.value[i] \in 0 .. 255
        /\ op.arg.t = "hugeint" => (result.exc = "OverflowError" /\ calls = <<>>)

\* C8 witness: readbytes(4097) returned a list of 4096 bytes
C8_Witness ==
    /\ op.name = "readbytes"
    /\ op.arg = PyInt(SPIDEV_MAXPATH + 1)
    /\ result.exc = "none"
    /\ Len(result.value) = SPIDEV_MAXPATH

\* C9: the object owns at most one open descriptor, the one stored in fd; once
\* it is closed none remains open.
C9_SingleDescriptor == open_fds \subseteq {fd}

\* C10: for n >= 1 the chunking loops of xfer3 and writebytes2 end after at
\* most ceil(n / B) writes or messages, whether each call succeeds, fails or
\* moves fewer bytes than asked.
C10_LoopsBounded ==
    (ChunkedOp /\ IsSeqArg /\ op.arg.v >= 1)
    => /\ xfer3_block_size \in 1 .. XFER3_MAX_BLOCK_SIZE
       /\ Len(LoopCalls) <= CeilDiv(op.arg.v, xfer3_block_size)
       /\ result.exc \in {"none", "IOError", "SystemError", "TypeError", "OverflowError"}

\* C10 witness: a chunked write stopped by a short write in its second block
C10_Witness ==
    /\ op.name = "writebytes2"
    /\ op.arg.t = "bytes"
    /\ Len(LoopCalls) = 2
    /\ LoopCalls[2].status >= 0
    /\ LoopCalls[2].status < LoopCalls[2].len
    /\ result.exc = "SystemError"

\* the attributes whose assignment runs a setter
SetterNames ==
    {"mode", "cshigh", "lsbfirst", "threewire", "loop", "no_cs",
     "bits_per_word", "max_speed_hz"}

\* C11: a setter that returns an error (wrong type, out of range, deletion,
\* failing write ioctl, failing read-back ioctl or read-back mismatch) leaves
\* fd and the cached mode, bits_per_word and max_speed_hz as they were, and
\* the device holds the settings it held before the assignment.
C11_FailedSetterChangesNothing ==
    [][(op'.name \in SetterNames /\ result'.exc # "none")
       => (/\ fd' = fd
           /\ mode' = mode
           /\ bits_per_word' = bits_per_word
           /\ max_speed_hz' = max_speed_hz
           /\ dev' = dev)]_vars
====
